---- MODULE Spec2Model ----
(***************************************************************************)
(* A model of src/main.rs: console adjustment (Windows), terminal          *)
(* initialisation, the seeding pass over the grid and the idle loop, with  *)
(* the terminal modelled as a character-cell screen fed by stdout.         *)
(***************************************************************************)
EXTENDS Integers, Sequences, FiniteSets, TLC

VARIABLES pc, platform, x, y, cells, visited, last, rawMode, pending, qi,
          screen, cursor, tmode, scrollBar, bufSize, newSize, osCalls,
          osFailed, diag, errFile, waited, termFail, phases, sleeps, op

vars == <<pc, platform, x, y, cells, visited, last, rawMode, pending, qi,
          screen, cursor, tmode, scrollBar, bufSize, newSize, osCalls,
          osFailed, diag, errFile, waited, termFail, phases, sleeps, op>>

winVars == <<scrollBar, bufSize, newSize, osCalls, osFailed, diag, errFile, waited>>
termVars == <<rawMode, pending, qi, screen, cursor, tmode>>
loopVars == <<x, y, cells, visited, last>>

----------------------------------------------------------------------------
(* Grid dimensions.  main.rs sets WIDTH = 200 and HEIGHT = 100 (lines 10   *)
(* and 11); the model scans a scaled-down grid of the same shape.          *)
WIDTH == 3
HEIGHT == 2

(* Number of sleeps of the idle loop the model follows. *)
MaxSleeps == 2

(* The console screen buffer found at start-up (columns, rows). *)
BufW0 == 80
BufH0 == 25

Grid == (0 .. WIDTH - 1) \X (0 .. HEIGHT - 1)

----------------------------------------------------------------------------
(* f32 arithmetic: a value is m / 2^k with a 24-bit significand m. *)

F32Bits == 24

Pow2(n) == 2 ^ n

(* Number of low bits to drop so that n fits F32Bits bits. *)
DropBits(n) == CHOOSE d \in 0 .. 8 :
                  /\ n \div Pow2(d) < Pow2(F32Bits)
                  /\ \A e \in 0 .. 8 : n \div Pow2(e) < Pow2(F32Bits) => d <= e

(* n / 2^k rounded to nearest, ties to even. *)
F32Round(n, k) ==
    LET d == DropBits(n)
        q == n \div Pow2(d)
        r == n % Pow2(d)
        half == IF d = 0 THEN 0 ELSE Pow2(d - 1)
        up == d > 0 /\ (r > half \/ (r = half /\ q % 2 = 1))
    IN  [m |-> IF up THEN q + 1 ELSE q, k |-> k - d]

(* a / b for small positive integers, rounded to f32. *)
F32Div(a, b) ==
    LET k == CHOOSE j \in 0 .. 30 :
                 /\ (a * Pow2(j)) \div b >= Pow2(F32Bits - 1)
                 /\ (a * Pow2(j)) \div b < Pow2(F32Bits)
        n == a * Pow2(k)
        q == n \div b
        r == n % b
        up == 2 * r > b \/ (2 * r = b /\ q % 2 = 1)
    IN  [m |-> IF up THEN q + 1 ELSE q, k |-> k]

(* f * n for an f32 f and an integer n that f32 holds exactly. *)
F32Mul(f, n) == F32Round(f.m * n, f.k)

(* `as i32` of a non-negative f32: truncation toward zero. *)
AsI32(f) == f.m \div Pow2(f.k)

SPAWN_CHANCE == F32Div(1, 100)

(* rand::random::<f32>(): a multiple of 2^-24 in [0, 1).  The samples the  *)
(* model draws: 0, the two values around 1/100, 1/2 and the largest one.   *)
Samples == {0, 167772, 167773, Pow2(F32Bits - 1), Pow2(F32Bits) - 1}

RandomF32(s) == [m |-> s, k |-> F32Bits]

Rng(s) == AsI32(F32Mul(RandomF32(s), 100))

Threshold == AsI32(F32Mul(SPAWN_CHANCE, 100))

(* Mutant: the comparison admits the threshold itself. *)
SpawnTest_Lte(s) == Rng(s) <= Threshold

SpawnTest(s) == Rng(s) < Threshold

----------------------------------------------------------------------------
(* The terminal: stdout bytes and control sequences acting on a screen.    *)

CELL == <<226, 150, 160>>
SPACE == <<32>>

Blank == SPACE[1]

(* The code point a terminal decodes from one UTF-8 sequence. *)
Utf8Decode(b) ==
    IF Len(b) = 1 /\ b[1] < 128 THEN b[1]
    ELSE IF Len(b) = 3 /\ b[1] >= 224 /\ b[1] < 240
              /\ b[2] \div 64 = 2 /\ b[3] \div 64 = 2
         THEN (b[1] - 224) * 4096 + (b[2] - 128) * 64 + (b[3] - 128)
         ELSE 65533

Glyph == Utf8Decode(CELL)

(* Mutant: the coordinates are sent as they are, counted from 0. *)
MoveTo_ZeroBased(c) == <<"CUP", c[2], c[1]>>

(* cursor::MoveTo(x, y) is CSI row ; column H, both counted from 1. *)
MoveTo(c) == <<"CUP", c[2] + 1, c[1] + 1>>

(* The commands init_term queues, in order.  SetSize(w, h) is CSI 8;h;w t. *)
InitCommands == << <<"SetSize", HEIGHT, WIDTH>>,
                   <<"Clear">>,
                   <<"Fg", "Green">>,
                   <<"Attr", "NoBlink">>,
                   <<"HideCursor">>,
                   <<"NoWrap">> >>

BlankScreen == [p \in Grid |-> Blank]

(* What one item of output does to the terminal t = [screen, cursor, tmode]. *)
Apply(t, cmd) ==
    CASE cmd[1] = "SetSize"    -> [t EXCEPT !.tmode.size = <<cmd[3], cmd[2]>>]
      [] cmd[1] = "Clear"      -> [t EXCEPT !.screen = BlankScreen]
      [] cmd[1] = "Fg"         -> [t EXCEPT !.tmode.fg = cmd[2]]
      [] cmd[1] = "Attr"       -> [t EXCEPT !.tmode.blink = FALSE]
      [] cmd[1] = "HideCursor" -> [t EXCEPT !.tmode.cursorShown = FALSE]
      [] cmd[1] = "NoWrap"     -> [t EXCEPT !.tmode.wrap = FALSE]
      [] cmd[1] = "CUP"        -> [t EXCEPT !.cursor = <<cmd[3] - 1, cmd[2] - 1>>]
      [] cmd[1] = "Bytes"      ->
            [t EXCEPT !.screen = IF t.cursor \in Grid
                                 THEN [t.screen EXCEPT ![t.cursor] = Utf8Decode(cmd[2])]
                                 ELSE t.screen,
                      !.cursor = <<IF t.cursor[1] + 1 < WIDTH
                                   THEN t.cursor[1] + 1 ELSE t.cursor[1],
                                   t.cursor[2]>>]

RECURSIVE ApplyAll(_, _)
ApplyAll(t, buf) ==
    IF buf = <<>> THEN t ELSE ApplyAll(Apply(t, Head(buf)), Tail(buf))

Term == [screen |-> screen, cursor |-> cursor, tmode |-> tmode]

(* The three operations draw_cell and clear_cell are made of. *)
QueueMoveTo(buf, c) == Append(buf, MoveTo(c))
WriteAll(buf, bytes) == Append(buf, <<"Bytes", bytes>>)
Flush(t, buf) == ApplyAll(t, buf)

draw_cell(t, buf, c) == Flush(t, WriteAll(QueueMoveTo(buf, c), CELL))
clear_cell(t, buf, c) == Flush(t, WriteAll(QueueMoveTo(buf, c), SPACE))

GlyphPositions == {p \in Grid : screen[p] = Glyph}

----------------------------------------------------------------------------
(* Initial states. *)

(* What the terminal may show before init_term clears it: a glyph left in *)
(* the first position and a letter in the last one.                       *)
DirtyScreen == [p \in Grid |-> IF p = <<0, 0>> THEN Glyph
                               ELSE IF p = <<WIDTH - 1, HEIGHT - 1>> THEN 120
                               ELSE Blank]

InitTmode == [size |-> <<BufW0, BufH0>>, fg |-> "Default", blink |-> TRUE,
              cursorShown |-> TRUE, wrap |-> TRUE]

OsCallNames == {"ShowScrollBar", "GetConsoleScreenBufferInfo",
                "SetConsoleScreenBufferSize"}

InitCommon ==
    /\ x = 0
    /\ y = 0
    /\ cells = <<>>
    /\ visited = <<>>
    /\ last = [s |-> 0, rng |-> 0, spawn |-> FALSE]
    /\ rawMode = FALSE
    /\ pending = <<>>
    /\ qi = 1
    /\ screen \in {BlankScreen, DirtyScreen}
    /\ cursor = <<0, 0>>
    /\ tmode = InitTmode
    /\ scrollBar = TRUE
    /\ bufSize = <<BufW0, BufH0>>
    /\ newSize = <<0, 0>>
    /\ osCalls = [c \in OsCallNames |-> 0]
    /\ osFailed = FALSE
    /\ diag = "none"
    /\ errFile = FALSE
    /\ waited = FALSE
    /\ termFail = "none"
    /\ phases = <<>>
    /\ sleeps = 0
    /\ op = [kind |-> "none", c |-> <<0, 0>>, was |-> Blank]

Init ==
    /\ pc = "start"
    /\ platform \in {"windows", "other"}
    /\ InitCommon

----------------------------------------------------------------------------
(* The Windows console adjuster. *)

EnterPhase(p) == phases' = Append(phases, p)

(* SHORT arithmetic of COORD.X - 2. *)
I16(v) == ((v + 32768) % 65536) - 32768

(* What reading dwSize through the null `info` pointer may yield when it   *)
(* does not fault: nothing ever stored the buffer's size there.            *)
GarbageSizes == {<<0, 0>>}

(* assert_win32_err!($res, $msg) with $res = 0: the message goes to        *)
(* error.txt (release builds) and to stdout, each unwrapped, then the      *)
(* 3 s sleep and the panic.                                                *)
PanicWith(msg) ==
    \E release \in BOOLEAN, fileOk \in BOOLEAN, outOk \in BOOLEAN :
        /\ pc' = "panicked"
        /\ errFile' = (release /\ fileOk)
        /\ diag' = IF (release /\ ~fileOk) \/ ~outOk THEN "none" ELSE msg
        /\ waited' = ((~release \/ fileOk) /\ outOk)

(* assert_win32_err!{call;}: the call is evaluated in the test; when it    *)
(* returned 0 the message is built (get_err_desc, itself asserted) and the *)
(* call expression is evaluated again into `val`, which is what the inner  *)
(* assertion tests.                                                        *)
assert_win32_err(call, nextpc) ==
    \E r1 \in {0, 1} :
        IF r1 # 0
        THEN /\ pc' = nextpc
             /\ osCalls' = [osCalls EXCEPT ![call] = @ + 1]
             /\ UNCHANGED <<osFailed, diag, errFile, waited>>
        ELSE /\ osFailed' = TRUE
             /\ \E count \in {0, 1} :
                   IF count = 0
                   THEN /\ osCalls' = [osCalls EXCEPT ![call] = @ + 1]
                        /\ PanicWith("assert failed")
                   ELSE \E val \in {0, 1} :
                          /\ osCalls' = [osCalls EXCEPT ![call] = @ + 2]
                          /\ IF val = 0
                             THEN PanicWith("call failed")
                             ELSE /\ pc' = nextpc
                                  /\ UNCHANGED <<diag, errFile, waited>>

(* Mutant: main goes straight to the seeding pass. *)
main_start_seeding ==
    /\ pc = "start"
    /\ pc' = "sample"
    /\ EnterPhase("seed")
    /\ UNCHANGED <<platform, loopVars, termVars, winVars, termFail, sleeps, op>>

main_start ==
    /\ pc = "start"
    /\ IF platform = "windows"
       THEN pc' = "win_scroll" /\ EnterPhase("window")
       ELSE pc' = "term_raw" /\ EnterPhase("term")
    /\ UNCHANGED <<platform, loopVars, termVars, winVars, termFail, sleeps, op>>

init_window_scroll ==
    /\ pc = "win_scroll"
    /\ assert_win32_err("ShowScrollBar", "win_info")
    /\ scrollBar' = IF pc' = "win_info" THEN FALSE ELSE scrollBar
    /\ UNCHANGED <<platform, loopVars, termVars, bufSize, newSize, termFail,
                   phases, sleeps, op>>

init_window_info ==
    /\ pc = "win_info"
    /\ \/ assert_win32_err("GetConsoleScreenBufferInfo", "win_deref")
       \/ /\ pc' = "crashed"
          /\ osCalls' = [osCalls EXCEPT !["GetConsoleScreenBufferInfo"] = @ + 1]
          /\ UNCHANGED <<osFailed, diag, errFile, waited>>
    /\ UNCHANGED <<platform, loopVars, termVars, scrollBar, bufSize, newSize,
                   termFail, phases, sleeps, op>>

init_window_deref ==
    /\ pc = "win_deref"
    /\ \/ pc' = "crashed" /\ UNCHANGED newSize
       \/ \E g \in GarbageSizes :
             /\ newSize' = <<I16(g[1] - 2), g[2]>>
             /\ pc' = "win_setsize"
    /\ UNCHANGED <<platform, loopVars, termVars, scrollBar, bufSize, osCalls,
                   osFailed, diag, errFile, waited, termFail, phases, sleeps, op>>

init_window_setsize ==
    /\ pc = "win_setsize"
    /\ assert_win32_err("SetConsoleScreenBufferSize", "term_raw")
    /\ bufSize' = IF pc' = "term_raw" THEN newSize ELSE bufSize
    /\ phases' = IF pc' = "term_raw" THEN Append(phases, "term") ELSE phases
    /\ UNCHANGED <<platform, loopVars, termVars, scrollBar, newSize, termFail,
                   sleeps, op>>

----------------------------------------------------------------------------
(* Terminal initialisation. *)

(* Mutant: the error path leaves raw mode before returning. *)
Fail_Cleanup(what) ==
    /\ pc' = "exit_err"
    /\ termFail' = what
    /\ rawMode' = FALSE
    /\ UNCHANGED <<platform, loopVars, pending, qi, screen, cursor, tmode,
                   winVars, phases, sleeps, op>>

(* `?` on an Err: main returns the error; nothing else is touched. *)
Fail(what) ==
    /\ pc' = "exit_err"
    /\ termFail' = what
    /\ UNCHANGED <<platform, loopVars, termVars, winVars, phases, sleeps, op>>

init_term_raw ==
    /\ pc = "term_raw"
    /\ \/ /\ rawMode' = TRUE
          /\ qi' = 1
          /\ pc' = "term_queue"
          /\ UNCHANGED <<platform, loopVars, pending, screen, cursor, tmode,
                         winVars, termFail, phases, sleeps, op>>
       \/ Fail("enable_raw_mode")

init_term_queue ==
    /\ pc = "term_queue"
    /\ \/ /\ pending' = Append(pending, InitCommands[qi])
          /\ IF qi < Len(InitCommands)
             THEN qi' = qi + 1 /\ pc' = "term_queue"
             ELSE qi' = qi /\ pc' = "term_flush"
          /\ UNCHANGED <<platform, loopVars, rawMode, screen, cursor, tmode,
                         winVars, termFail, phases, sleeps, op>>
       \/ Fail("init_queue")

init_term_flush ==
    /\ pc = "term_flush"
    /\ \/ /\ LET t == Flush(Term, pending)
             IN  screen' = t.screen /\ cursor' = t.cursor /\ tmode' = t.tmode
          /\ pending' = <<>>
          /\ pc' = "sample"
          /\ EnterPhase("seed")
          /\ UNCHANGED <<platform, loopVars, rawMode, qi, winVars, termFail,
                         sleeps, op>>
       \/ Fail("init_flush")

----------------------------------------------------------------------------
(* The seeding pass and the idle loop. *)

(* Mutant: the loops nested the other way round (y outer, x inner). *)
Advance_YOuter ==
    IF x + 1 < WIDTH
    THEN x' = x + 1 /\ y' = y /\ pc' = "sample" /\ UNCHANGED phases
    ELSE IF y + 1 < HEIGHT
         THEN x' = 0 /\ y' = y + 1 /\ pc' = "sample" /\ UNCHANGED phases
         ELSE x' = x /\ y' = y /\ pc' = "idle" /\ EnterPhase("idle")

(* The two `for` loops: the coordinate after (x, y), or the end. *)
Advance ==
    IF y + 1 < HEIGHT
    THEN x' = x /\ y' = y + 1 /\ pc' = "sample" /\ UNCHANGED phases
    ELSE IF x + 1 < WIDTH
         THEN x' = x + 1 /\ y' = 0 /\ pc' = "sample" /\ UNCHANGED phases
         ELSE x' = x /\ y' = y /\ pc' = "idle" /\ EnterPhase("idle")

main_sample ==
    /\ pc = "sample"
    /\ \E s \in Samples :
          /\ last' = [s |-> s, rng |-> Rng(s), spawn |-> SpawnTest(s)]
          /\ visited' = Append(visited, [c |-> <<x, y>>, spawn |-> SpawnTest(s)])
          /\ IF ~SpawnTest(s)
             THEN Advance
             ELSE pc' = "draw_queue" /\ UNCHANGED <<x, y, phases>>
    /\ UNCHANGED <<platform, cells, termVars, winVars, termFail, sleeps, op>>

main_draw_queue ==
    /\ pc = "draw_queue"
    /\ \/ /\ pending' = QueueMoveTo(pending, <<x, y>>)
          /\ pc' = "draw_write"
          /\ UNCHANGED <<platform, loopVars, rawMode, qi, screen, cursor, tmode,
                         winVars, termFail, phases, sleeps, op>>
       \/ Fail("draw_queue")

main_draw_write ==
    /\ pc = "draw_write"
    /\ \/ /\ pending' = WriteAll(pending, CELL)
          /\ pc' = "draw_flush"
          /\ UNCHANGED <<platform, loopVars, rawMode, qi, screen, cursor, tmode,
                         winVars, termFail, phases, sleeps, op>>
       \/ Fail("draw_write")

(* Mutant: the glyph is left in the buffer, to be flushed later. *)
main_draw_noflush ==
    /\ pc = "draw_flush"
    /\ pc' = "push"
    /\ UNCHANGED <<platform, loopVars, termVars, winVars, termFail, phases,
                   sleeps, op>>

main_draw_flush ==
    /\ pc = "draw_flush"
    /\ \/ /\ LET t == Flush(Term, pending)
             IN  screen' = t.screen /\ cursor' = t.cursor /\ tmode' = t.tmode
          /\ pending' = <<>>
          /\ pc' = "push"
          /\ UNCHANGED <<platform, loopVars, rawMode, qi, winVars, termFail,
                         phases, sleeps, op>>
       \/ Fail("draw_flush")

(* Mutant: the new cell is put at the front of the sequence. *)
main_push_front ==
    /\ pc = "push"
    /\ cells' = <<<<x, y>>>> \o cells
    /\ Advance
    /\ UNCHANGED <<platform, visited, last, termVars, winVars, termFail,
                   sleeps, op>>

main_push ==
    /\ pc = "push"
    /\ cells' = Append(cells, <<x, y>>)
    /\ Advance
    /\ UNCHANGED <<platform, visited, last, termVars, winVars, termFail,
                   sleeps, op>>

(* Mutant: the idle loop redraws the first cell after each sleep. *)
main_sleep_redraw ==
    /\ pc = "idle"
    /\ sleeps < MaxSleeps
    /\ sleeps' = sleeps + 1
    /\ LET t == IF cells = <<>> THEN Term
                ELSE Flush(Term, WriteAll(QueueMoveTo(pending, cells[1]), SPACE))
       IN  screen' = t.screen /\ cursor' = t.cursor /\ tmode' = t.tmode
    /\ UNCHANGED <<pc, platform, loopVars, rawMode, pending, qi, winVars,
                   termFail, phases, op>>

main_sleep ==
    /\ pc = "idle"
    /\ sleeps < MaxSleeps
    /\ sleeps' = sleeps + 1
    /\ UNCHANGED <<pc, platform, loopVars, termVars, winVars, termFail,
                   phases, op>>

Next ==
    \/ main_start
    \/ init_window_scroll
    \/ init_window_info
    \/ init_window_deref
    \/ init_window_setsize
    \/ init_term_raw
    \/ init_term_queue
    \/ init_term_flush
    \/ main_sample
    \/ main_draw_queue
    \/ main_draw_write
    \/ main_draw_flush
    \/ main_push
    \/ main_sleep

Spec == Init /\ [][Next]_vars

----------------------------------------------------------------------------
(* draw_cell and clear_cell called on their own, on any cell of the grid   *)
(* and any screen the calls can produce.                                   *)

InitCell ==
    /\ pc = "cells"
    /\ platform = "other"
    /\ InitCommon

CallOn(t, kind, c) ==
    /\ screen' = t.screen
    /\ cursor' = t.cursor
    /\ tmode' = t.tmode
    /\ pending' = <<>>
    /\ op' = [kind |-> kind, c |-> c, was |-> screen[c]]
    /\ UNCHANGED <<pc, platform, loopVars, rawMode, qi, winVars, termFail,
                   phases, sleeps>>

call_draw_cell ==
    /\ pc = "cells"
    /\ \E c \in Grid : CallOn(draw_cell(Term, pending, c), "draw", c)

call_clear_cell ==
    /\ pc = "cells"
    /\ \E c \in Grid : CallOn(clear_cell(Term, pending, c), "clear", c)

NextCell == call_draw_cell \/ call_clear_cell

SpecCell == InitCell /\ [][NextCell]_vars

----------------------------------------------------------------------------
(* Properties. *)

Range(f) == {f[i] : i \in DOMAIN f}

(* The scan order: x outer, y inner. *)
ScanOrder == [i \in 1 .. WIDTH * HEIGHT |->
                 <<(i - 1) \div HEIGHT, (i - 1) % HEIGHT>>]

ScanIndex(c) == c[1] * HEIGHT + c[2] + 1

VisitedCoords == [i \in 1 .. Len(visited) |-> visited[i].c]

DrawPcs == {"draw_queue", "draw_write", "draw_flush", "push"}

(* C1: the seeding pass samples every coordinate of the grid exactly once, *)
(* x outer and y inner: what has been sampled is always a prefix of the    *)
(* scan order, the coordinate about to be sampled is the next one of it,   *)
(* and in the idle loop all WIDTH * HEIGHT coordinates have been sampled.  *)
C1_VisitsEachOnceInScanOrder ==
    /\ Len(visited) <= WIDTH * HEIGHT
    /\ VisitedCoords = SubSeq(ScanOrder, 1, Len(visited))
    /\ Cardinality(Range(VisitedCoords)) = Len(visited)
    /\ pc = "sample" => <<x, y>> = ScanOrder[Len(visited) + 1]
    /\ pc = "idle" => /\ Len(visited) = WIDTH * HEIGHT
                      /\ Range(VisitedCoords) = Grid

C1_Witness == pc = "idle" /\ Len(visited) = WIDTH * HEIGHT /\ WIDTH > 1 /\ HEIGHT > 1

(* C2: when the pass completes, the cell sequence is the scan order        *)
(* restricted to the coordinates whose sample passed: all of the grid when *)
(* every sample passed, empty when none did; cells always lie in the grid, *)
(* never repeat and stand in scan order.                                   *)
PassedCoords ==
    LET passed == SelectSeq(visited, LAMBDA v : v.spawn)
    IN  [i \in 1 .. Len(passed) |-> passed[i].c]

C2_CellsAreThePassedCoordinates ==
    /\ \A i \in 1 .. Len(cells) : cells[i] \in Grid
    /\ \A i, j \in 1 .. Len(cells) :
          i < j => ScanIndex(cells[i]) < ScanIndex(cells[j])
    /\ pc = "idle" =>
          /\ cells = PassedCoords
          /\ cells = SelectSeq(ScanOrder,
                               LAMBDA c : visited[ScanIndex(c)].spawn)
          /\ (\A i \in 1 .. Len(visited) : visited[i].spawn) => cells = ScanOrder
          /\ (\A i \in 1 .. Len(visited) : ~visited[i].spawn) => cells = <<>>

C2_Witness == pc = "idle" /\ cells = ScanOrder /\ Len(cells) = WIDTH * HEIGHT

(* C3: the sample is scaled and truncated to an integer in 0 .. 99, the    *)
(* threshold is 1, and a cell is spawned (drawn, then appended) exactly    *)
(* when that integer is below the threshold, that is when it is 0; the     *)
(* sample 1/2 gives 50 and does not spawn.                                 *)
C3_SpawnDecision ==
    /\ Threshold = 1
    /\ Len(visited) > 0 =>
          /\ last.rng \in 0 .. 99
          /\ last.spawn <=> last.rng < Threshold
          /\ last.spawn <=> last.rng = 0
          /\ visited[Len(visited)].spawn = last.spawn
          /\ last.s = 0 => last.rng = 0 /\ last.spawn
          /\ last.s = Pow2(F32Bits - 1) => last.rng = 50 /\ ~last.spawn
          /\ last.s = Pow2(F32Bits) - 1 => last.rng = 99
          /\ pc \in DrawPcs => last.spawn
          /\ ~last.spawn => visited[Len(visited)].c \notin Range(cells)

C3_Witness ==
    /\ pc = "sample"
    /\ Len(visited) > 0
    /\ last.rng = 50
    /\ \E i \in 1 .. Len(visited) : visited[i].spawn

(* init_term has returned Ok: raw mode is on and every queued command    *)
(* has reached the terminal.                                             *)
TermInitialised ==
    /\ rawMode
    /\ tmode = [size |-> <<WIDTH, HEIGHT>>, fg |-> "Green", blink |-> FALSE,
                cursorShown |-> FALSE, wrap |-> FALSE]

PhaseOrder == IF platform = "windows"
              THEN <<"window", "term", "seed", "idle">>
              ELSE <<"term", "seed", "idle">>

Entered(p) == p \in Range(phases)

(* C4: the phases are entered in the order adjust console (Windows only),  *)
(* init terminal, seed, idle, each at most once; init_term starts only     *)
(* once init_window has made its calls and returned; nothing is sampled,   *)
(* drawn or appended before init_term returned Ok; the idle loop is        *)
(* entered only after the last coordinate has been processed.              *)
C4_PhasesInOrder ==
    /\ Len(phases) <= Len(PhaseOrder)
    /\ phases = SubSeq(PhaseOrder, 1, Len(phases))
    /\ Entered("term") /\ platform = "windows" =>
          /\ \A c \in OsCallNames : osCalls[c] >= 1
          /\ pc \notin {"panicked", "crashed"}
    /\ ~Entered("term") =>
          ~rawMode /\ pending = <<>> /\ tmode = InitTmode /\ termFail = "none"
    /\ ~Entered("seed") =>
          /\ visited = <<>> /\ cells = <<>>
          /\ pc \notin DrawPcs \cup {"sample", "idle"}
    /\ Entered("seed") => TermInitialised
    /\ pc \in DrawPcs \cup {"sample"} => Entered("seed") /\ ~Entered("idle")
    /\ (pc = "idle") <=> Entered("idle")
    /\ Entered("idle") =>
          /\ Len(visited) = WIDTH * HEIGHT
          /\ visited[Len(visited)].c = <<WIDTH - 1, HEIGHT - 1>>
          /\ visited[Len(visited)].spawn =>
                cells # <<>> /\ cells[Len(cells)] = <<WIDTH - 1, HEIGHT - 1>>

C4_Witness ==
    /\ pc = "idle"
    /\ platform = "windows"
    /\ phases = <<"window", "term", "seed", "idle">>
    /\ cells # <<>>

(* C5: a failing terminal operation ends main with the error at once: the  *)
(* failing step changes nothing but the control state (no cell appended,   *)
(* nothing drawn, raw mode left as it was), no step follows it, and the    *)
(* idle loop is never reached; a cell whose draw failed is not in the      *)
(* cell sequence.                                                          *)
C5_FailureStep ==
    (termFail' # termFail) =>
        /\ termFail = "none"
        /\ pc' = "exit_err"
        /\ UNCHANGED <<x, y, cells, visited, rawMode, pending, screen, cursor,
                       tmode, phases, sleeps>>

C5_FailureState ==
    /\ (pc = "exit_err") <=> (termFail # "none")
    /\ pc = "exit_err" =>
          /\ ~Entered("idle")
          /\ rawMode <=> termFail # "enable_raw_mode"
          /\ termFail \in {"draw_queue", "draw_write", "draw_flush"} =>
                /\ visited[Len(visited)] = [c |-> <<x, y>>, spawn |-> TRUE]
                /\ <<x, y>> \notin Range(cells)
                /\ Len(cells) = Cardinality({i \in DOMAIN visited : visited[i].spawn}) - 1

C5_TerminalErrorsPropagate ==
    /\ [][C5_FailureStep]_vars
    /\ [][pc # "exit_err"]_vars
    /\ []C5_FailureState

C5_Witness ==
    /\ pc = "exit_err"
    /\ termFail = "draw_flush"
    /\ rawMode
    /\ cells # <<>>

(* C7: once in the idle loop main stays there: every later step keeps the  *)
(* control state, the cell sequence, the screen and the output buffer, and *)
(* main never returns Ok.                                                  *)
C7_IdleStep ==
    pc = "idle" =>
        /\ pc' = "idle"
        /\ UNCHANGED <<cells, visited, screen, cursor, tmode, pending, rawMode>>

C7_IdleForever ==
    /\ [][C7_IdleStep]_vars
    /\ [](pc # "exit_ok")

C7_Witness == pc = "idle" /\ sleeps = MaxSleeps /\ cells # <<>>

(* C10: at every point where a coordinate is sampled, and in the idle      *)
(* loop, no output is pending and the positions showing the glyph are      *)
(* exactly the coordinates of the cell sequence; while a cell is being     *)
(* drawn the glyphs exceed the cell sequence by at most that cell.         *)
C10_DrawnEqualsCells ==
    /\ pc \in {"sample", "idle"} =>
          /\ pending = <<>>
          /\ GlyphPositions = Range(cells)
    /\ pc \in DrawPcs =>
          /\ Range(cells) \subseteq GlyphPositions
          /\ GlyphPositions \subseteq Range(cells) \cup {<<x, y>>}
          /\ <<x, y>> \notin Range(cells)
    /\ pc = "push" => pending = <<>> /\ <<x, y>> \in GlyphPositions
    /\ pc \in {"draw_queue", "draw_write", "draw_flush"} =>
          <<x, y>> \notin GlyphPositions

C10_Witness ==
    /\ pc = "push"
    /\ Len(cells) > 0
    /\ GlyphPositions = Range(cells) \cup {<<x, y>>}

(* C9: on any screen, a successful draw_cell(c) leaves the glyph U+25A0 at *)
(* c and a successful clear_cell(c) a space at c, each changing position c *)
(* only; clear after draw leaves c blank and draw after clear shows the    *)
(* glyph again.                                                            *)
C9_DrawClearInverse ==
    /\ Glyph = 9632 /\ Blank = 32 /\ Len(CELL) = 3 /\ Len(SPACE) = 1
    /\ \A c \in Grid :
          LET d == draw_cell(Term, pending, c)
              k == clear_cell(Term, pending, c)
          IN  /\ d.screen = [screen EXCEPT ![c] = Glyph]
              /\ k.screen = [screen EXCEPT ![c] = Blank]
              /\ clear_cell(d, <<>>, c).screen = [screen EXCEPT ![c] = Blank]
              /\ draw_cell(k, <<>>, c).screen = [screen EXCEPT ![c] = Glyph]
    /\ op.kind = "draw" => screen[op.c] = Glyph /\ pending = <<>>
    /\ op.kind = "clear" => screen[op.c] = Blank /\ pending = <<>>

C9_Witness ==
    /\ op.kind = "clear"
    /\ op.was = Glyph
    /\ screen[op.c] = Blank
    /\ \E p \in Grid : p # op.c /\ screen[p] = Glyph

(* C6 as claimed: every OS call of init_window is made at most once, and   *)
(* once a call has returned zero the process panics: it does not go on to  *)
(* the next call, to init_term or to seeding.                              *)
C6_FailFastNoRetry ==
    /\ \A c \in OsCallNames : osCalls[c] <= 1
    /\ osFailed => pc = "panicked"

(* C8 as claimed: when every OS call succeeded and init_window has         *)
(* returned, the scrollbar is hidden and the screen buffer is the one      *)
(* found at start-up with its width reduced by 2 and its height kept.      *)
C8_WidthShrunkByTwo ==
    (platform = "windows" /\ Entered("term") /\ ~osFailed) =>
        /\ scrollBar = FALSE
        /\ bufSize = <<BufW0 - 2, BufH0>>

====
